---- MODULE Spec2Model ----
(***************************************************************************)
(* A model of ros_arduino_python/arduino_driver.py: the Arduino driver     *)
(* class, its connect handshake, the execute primitive guarded by a mutex, *)
(* and the typed operations layered on it.                                 *)
(*                                                                         *)
(* Text is modelled as a sequence of one-character strings, so that the    *)
(* conversions of the driver (strip, split, int, float, %d) are computed   *)
(* the way Python computes them.                                           *)
(***************************************************************************)
EXTENDS Integers, Sequences, FiniteSets, TLC

VARIABLES
  port,        \* self.port
  baudrate,    \* self.baudrate
  fields,      \* self.timeout, writeTimeout, encoder_count, PID_RATE, PID_INTERVAL
  mutex,       \* self.mutex: 0 when free, else the thread that acquired it
  serial_port, \* self.serial_port: 0 before the attribute exists, else a handle
  handle,      \* the state of each serial.Serial object connect creates
  cpc,         \* the position of connect()
  tests,       \* the values connect has assigned to its local `test`
  bQueries,    \* how many 'b' command lines connect has put on the transport
  pc,          \* per thread: its position inside execute()
  call,        \* per thread: the operation in progress, its arguments and cmd
  sent,        \* per thread: what the current call wrote to the transport
  nwrites,     \* per thread: transport writes made by the current call
  nreads,      \* per thread: readline calls made by the current call
  value,       \* per thread: execute's local `value`
  timedout,    \* per thread: whether the current call's readline timed out
  outcome,     \* per thread: what the call returned or raised
  calls,       \* number of calls the application has made after connect
  lastEv,      \* the last completed transport operation and its thread
  unanswered,  \* command lines the device has received and not answered yet
  rx           \* lines the device has sent that no readline has consumed yet

vars == <<port, baudrate, fields, mutex, serial_port, handle, cpc, tests,
          bQueries, pc, call, sent, nwrites, nreads, value, timedout, outcome,
          calls, lastEv, unanswered, rx>>

----------------------------------------------------------------------------
(* Bounds of the model. *)

NumThreads == 2
MaxCalls == 2

Threads == 1..NumThreads
Main == 1

----------------------------------------------------------------------------
(* Text helpers: Python's str methods and numeric conversions. *)

Digits == <<"0", "1", "2", "3", "4", "5", "6", "7", "8", "9">>
DigitSet == {Digits[i] : i \in 1..10}
DigitVal(c) == (CHOOSE i \in 1..10 : Digits[i] = c) - 1

\* string.whitespace, as used by str.split() and by int()/float()
Whitespace == {" ", "\t", "\n", "\r", "\f"}

RECURSIVE LStrip(_, _)
LStrip(s, chars) ==
  IF s # <<>> /\ Head(s) \in chars THEN LStrip(Tail(s), chars) ELSE s

RECURSIVE RStrip(_, _)
RStrip(s, chars) ==
  IF s # <<>> /\ s[Len(s)] \in chars
  THEN RStrip(SubSeq(s, 1, Len(s) - 1), chars)
  ELSE s

\* s.strip(chars)
Strip(s, chars) == RStrip(LStrip(s, chars), chars)

\* s.split(): tokens separated by runs of whitespace, no empty token
RECURSIVE SplitFrom(_, _, _)
SplitFrom(s, cur, acc) ==
  IF s = <<>>
  THEN IF cur = <<>> THEN acc ELSE Append(acc, cur)
  ELSE IF Head(s) \in Whitespace
       THEN SplitFrom(Tail(s), <<>>, IF cur = <<>> THEN acc ELSE Append(acc, cur))
       ELSE SplitFrom(Tail(s), Append(cur, Head(s)), acc)

Split(s) == SplitFrom(s, <<>>, <<>>)

AllDigits(s) == s # <<>> /\ \A i \in 1..Len(s) : s[i] \in DigitSet

RECURSIVE DigitsVal(_)
DigitsVal(s) ==
  IF s = <<>> THEN 0
  ELSE 10 * DigitsVal(SubSeq(s, 1, Len(s) - 1)) + DigitVal(s[Len(s)])

Unsigned(s) == IF s # <<>> /\ Head(s) \in {"+", "-"} THEN Tail(s) ELSE s
Sign(s) == IF s # <<>> /\ Head(s) = "-" THEN -1 ELSE 1

\* int(s): surrounding whitespace is ignored, then an optional sign and
\* decimal digits; anything else is a ValueError (ok = FALSE).
ParseInt(s) ==
  LET body == Strip(s, Whitespace)
      mag  == Unsigned(body)
  IN IF AllDigits(mag)
     THEN [ok |-> TRUE, val |-> Sign(body) * DigitsVal(mag)]
     ELSE [ok |-> FALSE, val |-> 0]

\* The index of the first "." of s, or 0.
DotAt(s) ==
  IF \E i \in 1..Len(s) : s[i] = "."
  THEN CHOOSE i \in 1..Len(s) : s[i] = "." /\ \A j \in 1..(i - 1) : s[j] # "."
  ELSE 0

\* float(s) for decimal literals without exponent: optional sign, digits with
\* at most one ".", at least one digit.  The value is mant / 10^scale.
ParseFloat(s) ==
  LET body == Strip(s, Whitespace)
      mag  == Unsigned(body)
      d    == DotAt(mag)
      ip   == IF d = 0 THEN mag ELSE SubSeq(mag, 1, d - 1)
      fp   == IF d = 0 THEN <<>> ELSE SubSeq(mag, d + 1, Len(mag))
      good == /\ ip \o fp # <<>>
              /\ \A i \in 1..Len(ip) : ip[i] \in DigitSet
              /\ \A i \in 1..Len(fp) : fp[i] \in DigitSet
  IN IF good
     THEN [ok |-> TRUE, mant |-> Sign(body) * DigitsVal(ip \o fp), scale |-> Len(fp)]
     ELSE [ok |-> FALSE, mant |-> 0, scale |-> 0]

\* '%d' % n and str(n) for an integer n
RECURSIVE NatToStr(_)
NatToStr(n) ==
  IF n < 10 THEN <<Digits[n + 1]>>
  ELSE Append(NatToStr(n \div 10), Digits[(n % 10) + 1])

IntToStr(n) == IF n < 0 THEN <<"-">> \o NatToStr(-n) ELSE NatToStr(n)

----------------------------------------------------------------------------
(* Values a call can produce.  One record shape for all of them, so that    *)
(* any two outcomes can be compared.                                        *)

Blank(k) ==
  [kind |-> k, exc |-> "", ints |-> <<>>, text |-> <<>>, toks |-> <<>>, floats |-> <<>>]

Pending == Blank("pending")
PyNone == Blank("None")
PyBool(b) == Blank(IF b THEN "True" ELSE "False")
PyInt(n) == [Blank("int") EXCEPT !.ints = <<n>>]
PyStr(s) == [Blank("str") EXCEPT !.text = s]
PyStrList(l) == [Blank("list_str") EXCEPT !.toks = l]
PyIntList(l) == [Blank("list_int") EXCEPT !.ints = l]
PyFloatList(l) == [Blank("list_float") EXCEPT !.floats = l]
Raised(e) == [Blank("raise") EXCEPT !.exc = e]

\* What the body of execute() hands back: the stripped line, or the exception
\* the transport raised inside it.
Returned(v) == [exc |-> "", val |-> v]
Threw(e) == [exc |-> e, val |-> <<>>]

----------------------------------------------------------------------------
(* The command line each operation formats, and the result it computes     *)
(* from what execute() gave it.                                             *)

SP == <<" ">>
OK == <<"O", "K">>

execute(x) == IF x.exc # "" THEN Raised(x.exc) ELSE PyStr(x.val)

execute_array(x) == IF x.exc # "" THEN Raised(x.exc) ELSE PyStrList(Split(x.val))

execute_ack(x) == IF x.exc # "" THEN Raised(x.exc) ELSE PyBool(x.val = OK)

\* IntOrNone without its try/except: the exception of int() or of execute()
\* reaches the caller.
IntOrRaise(x) ==
  IF x.exc # "" THEN Raised(x.exc)
  ELSE IF ParseInt(x.val).ok THEN PyInt(ParseInt(x.val).val) ELSE Raised("ValueError")

\* try: return int(self.execute(...))  except: return None
IntOrNone(x) ==
  IF x.exc # "" THEN PyNone
  ELSE IF ParseInt(x.val).ok THEN PyInt(ParseInt(x.val).val) ELSE PyNone

update_pid_cmd(a) ==
  <<"u", " ">> \o IntToStr(a[1]) \o <<":">> \o IntToStr(a[2]) \o <<":">>
     \o IntToStr(a[3]) \o <<":">> \o IntToStr(a[4])

\* self.execute_ack(cmd) with its value dropped: the method returns None
update_pid(x) == IF execute_ack(x).kind = "raise" THEN execute_ack(x) ELSE PyNone

get_baud(x) == IntOrNone(x)

get_encoder_counts(x) ==
  LET values == execute_array(x)
  IN IF values.kind = "raise" THEN values
     ELSE IF Len(values.toks) # 2 THEN Raised("SerialException")
     ELSE IF \A i \in 1..2 : ParseInt(values.toks[i]).ok
          THEN PyIntList([i \in 1..2 |-> ParseInt(values.toks[i]).val])
          ELSE Raised("ValueError")

reset_encoders(x) == execute_ack(x)

get_imu_data(x) ==
  LET values == execute_array(x)
  IN IF values.kind = "raise" THEN values
     ELSE IF Len(values.toks) # 12 THEN PyNone
     ELSE IF \A i \in 1..12 : ParseFloat(values.toks[i]).ok
          THEN PyFloatList([i \in 1..12 |->
                 [mant |-> ParseFloat(values.toks[i]).mant,
                  scale |-> ParseFloat(values.toks[i]).scale]])
          ELSE Raised("ValueError")

drive_cmd(a) == <<"m", " ">> \o IntToStr(a[1]) \o SP \o IntToStr(a[2])
drive(x) == execute_ack(x)

\* self.drive(0, 0) with its value dropped: the method returns None
stop_cmd == drive_cmd(<<0, 0>>)
stop(x) == IF drive(x).kind = "raise" THEN drive(x) ELSE PyNone

analog_pin_mode_cmd(a) == <<"c", " ", "A">> \o IntToStr(a[1]) \o SP \o IntToStr(a[2])
analog_pin_mode(x) == execute_ack(x)

analog_read_cmd(a) == <<"a", " ">> \o IntToStr(a[1])
analog_read(x) == IntOrNone(x)

analog_write_cmd(a) == <<"x", " ">> \o IntToStr(a[1]) \o SP \o IntToStr(a[2])
analog_write(x) == execute_ack(x)

digital_read_cmd(a) == <<"d", " ">> \o IntToStr(a[1])
digital_read(x) == IntOrNone(x)

digital_write_cmd(a) == <<"w", " ">> \o IntToStr(a[1]) \o SP \o IntToStr(a[2])
digital_write(x) == execute_ack(x)

digital_pin_mode_cmd(a) == <<"c", " ">> \o IntToStr(a[1]) \o SP \o IntToStr(a[2])
digital_pin_mode(x) == execute_ack(x)

config_servo_cmd(a) == <<"j", " ">> \o IntToStr(a[1]) \o SP \o IntToStr(a[2])
config_servo(x) == execute_ack(x)

servo_write_cmd(a) == <<"s", " ">> \o IntToStr(a[1]) \o SP \o IntToStr(a[2])
servo_write(x) == execute_ack(x)

servo_read_cmd(a) == <<"t", " ">> \o IntToStr(a[1])
servo_read(x) ==
  IF x.exc # "" THEN Raised(x.exc)
  ELSE IF ParseInt(x.val).ok THEN PyInt(ParseInt(x.val).val) ELSE Raised("ValueError")

set_servo_delay_cmd(a) == <<"v", " ">> \o IntToStr(a[1]) \o SP \o IntToStr(a[2])
set_servo_delay(x) == execute_ack(x)

detach_servo_cmd(a) == <<"z", " ">> \o IntToStr(a[1])
detach_servo(x) == execute_ack(x)

attach_servo_cmd(a) == <<"y", " ">> \o IntToStr(a[1])
attach_servo(x) == execute_ack(x)

ping_cmd(a) == <<"p", " ">> \o IntToStr(a[1])
ping(x) == execute(x)

\* The cmd string the method named op passes down to execute().
CmdOf(op, a) ==
  CASE op = "update_pid" -> update_pid_cmd(a)
    [] op = "get_baud" -> <<"b">>
    [] op = "get_encoder_counts" -> <<"e">>
    [] op = "reset_encoders" -> <<"r">>
    [] op = "get_imu_data" -> <<"i">>
    [] op = "drive" -> drive_cmd(a)
    [] op = "stop" -> stop_cmd
    [] op = "analog_pin_mode" -> analog_pin_mode_cmd(a)
    [] op = "analog_read" -> analog_read_cmd(a)
    [] op = "analog_write" -> analog_write_cmd(a)
    [] op = "digital_read" -> digital_read_cmd(a)
    [] op = "digital_write" -> digital_write_cmd(a)
    [] op = "digital_pin_mode" -> digital_pin_mode_cmd(a)
    [] op = "config_servo" -> config_servo_cmd(a)
    [] op = "servo_write" -> servo_write_cmd(a)
    [] op = "servo_read" -> servo_read_cmd(a)
    [] op = "set_servo_delay" -> set_servo_delay_cmd(a)
    [] op = "detach_servo" -> detach_servo_cmd(a)
    [] op = "attach_servo" -> attach_servo_cmd(a)
    [] op = "ping" -> ping_cmd(a)

\* What the method named op returns (or raises), given what execute() gave it.
ResultOf(op, x) ==
  CASE op = "execute" -> execute(x)
    [] op = "execute_array" -> execute_array(x)
    [] op = "execute_ack" -> execute_ack(x)
    [] op = "update_pid" -> update_pid(x)
    [] op = "get_baud" -> get_baud(x)
    [] op = "get_encoder_counts" -> get_encoder_counts(x)
    [] op = "reset_encoders" -> reset_encoders(x)
    [] op = "get_imu_data" -> get_imu_data(x)
    [] op = "drive" -> drive(x)
    [] op = "stop" -> stop(x)
    [] op = "analog_pin_mode" -> analog_pin_mode(x)
    [] op = "analog_read" -> analog_read(x)
    [] op = "analog_write" -> analog_write(x)
    [] op = "digital_read" -> digital_read(x)
    [] op = "digital_write" -> digital_write(x)
    [] op = "digital_pin_mode" -> digital_pin_mode(x)
    [] op = "config_servo" -> config_servo(x)
    [] op = "servo_write" -> servo_write(x)
    [] op = "servo_read" -> servo_read(x)
    [] op = "set_servo_delay" -> set_servo_delay(x)
    [] op = "detach_servo" -> detach_servo(x)
    [] op = "attach_servo" -> attach_servo(x)
    [] op = "ping" -> ping(x)

----------------------------------------------------------------------------
(* The inputs: calls the threads make and lines the device sends. *)

NoArgs == {<<>>}
PinArgs == {<<0>>, <<13>>}
PairArgs == {<<13, 1>>, <<3, -20>>}
PidArgs == {<<20, 12, 0, 50>>}

NoArgOps == {"get_baud", "get_encoder_counts", "reset_encoders", "get_imu_data", "stop"}
PinOps == {"analog_read", "digital_read", "servo_read", "detach_servo",
           "attach_servo", "ping"}
PairOps == {"drive", "analog_pin_mode", "analog_write", "digital_write",
            "digital_pin_mode", "config_servo", "servo_write", "set_servo_delay"}

ArgsOf(op) ==
  IF op \in NoArgOps THEN NoArgs
  ELSE IF op \in PinOps THEN PinArgs
  ELSE IF op \in PairOps THEN PairArgs
  ELSE PidArgs

TypedOps == NoArgOps \cup PinOps \cup PairOps \cup {"update_pid"}

\* max_attempts is 5 unless the caller of a primitive passes another value.
MkCall(op, a) == [op |-> op, args |-> a, cmd |-> CmdOf(op, a), max_attempts |-> 5]
Primitive(op, cmd) == [op |-> op, args |-> <<>>, cmd |-> cmd, max_attempts |-> 5]
NoCall == [op |-> "", args |-> <<>>, cmd |-> <<>>, max_attempts |-> 5]

\* Every typed operation with every argument tuple of the model.
TypedCalls == UNION {{MkCall(op, a) : a \in ArgsOf(op)} : op \in TypedOps}

\* The calls concurrent threads make: the three primitives and two typed ones.
ThreadCalls ==
  {Primitive("execute", <<"e">>), Primitive("execute_array", <<"i">>),
   Primitive("execute_ack", <<"r">>), MkCall("digital_write", <<13, 1>>),
   MkCall("analog_read", <<0>>)}

\* The primitives called directly, with a max_attempts of the caller's choice.
Attempts == {0, 1, 5}
PrimitiveOps == {"execute", "execute_array", "execute_ack"}
PrimitiveCalls ==
  {[Primitive(op, <<"e">>) EXCEPT !.max_attempts = m] : op \in PrimitiveOps, m \in Attempts}

\* The ack-type calls of the concurrency scenario.
AckCalls ==
  {Primitive("execute_ack", <<"r">>), MkCall("digital_write", <<13, 1>>),
   MkCall("drive", <<3, -20>>), MkCall("reset_encoders", <<>>)}

NL == <<"\n">>
CRLF == <<"\r", "\n">>

RECURSIVE Tokens(_, _)
Tokens(tok, n) == IF n = 0 THEN <<>> ELSE tok \o SP \o Tokens(tok, n - 1)

LineOK == OK \o NL
LineOKCRLF == OK \o CRLF
LineBaud == <<"5", "7", "6", "0", "0">> \o CRLF
LineOtherBaud == <<"9", "6", "0", "0">> \o NL
LineNoise == <<"x">> \o NL
LineEmpty == NL
LineFloat == <<"1", ".", "5">> \o NL
LinePair == <<"1", " ", "-", "2">> \o CRLF
LinePairBad == <<"1", " ", "x">> \o NL
LineTriple == <<"1", " ", "2", " ", "3">> \o NL
LineImu12 == Tokens(<<"-", ".", "5">>, 11) \o <<"7">> \o CRLF
LineImu11 == Tokens(<<"1", ".", "5">>, 10) \o <<"7">> \o NL
LineImu13 == Tokens(<<"1", ".", "5">>, 12) \o <<"7">> \o NL
LineImu12Bad == Tokens(<<"1", ".", "5">>, 11) \o <<"x">> \o NL

\* Every line of the model.
Lines ==
  {LineOK, LineOKCRLF, LineBaud, LineOtherBaud, LineNoise, LineEmpty, LineFloat,
   LinePair, LinePairBad, LineTriple, LineImu12, LineImu11, LineImu13, LineImu12Bad}

\* The lines the device sends in the concurrency scenario.
ThreadLines == {LineOK, LineBaud, LineOtherBaud, LineNoise}

Ports == {"None", "", "/dev/ttyUSB0"}

----------------------------------------------------------------------------
(* State after Arduino.__init__. *)

\* The fields __init__ sets besides port, baudrate and the lock; the timeouts
\* (0.5 s by default) are in milliseconds.  1000 / 30 is Python 2 integer division.
InitFields ==
  [timeout |-> 500, writeTimeout |-> 500, encoder_count |-> 0,
   PID_RATE |-> 30, PID_INTERVAL |-> 1000 \div 30]

Init ==
  /\ port \in Ports
  /\ baudrate = 57600
  /\ fields = InitFields
  /\ mutex = 0
  /\ serial_port = 0
  /\ handle = [h \in 1..2 |-> "none"]
  /\ cpc = "open_default"
  /\ tests = <<>>
  /\ bQueries = 0
  /\ pc = [t \in Threads |-> "idle"]
  /\ call = [t \in Threads |-> NoCall]
  /\ sent = [t \in Threads |-> <<>>]
  /\ nwrites = [t \in Threads |-> 0]
  /\ nreads = [t \in Threads |-> 0]
  /\ value = [t \in Threads |-> <<>>]
  /\ timedout = [t \in Threads |-> FALSE]
  /\ outcome = [t \in Threads |-> Pending]
  /\ calls = 0
  /\ lastEv = [kind |-> "none", thread |-> 0]
  /\ unanswered = <<>>
  /\ rx = <<>>

config == <<port, baudrate, fields>>
dev == <<unanswered, rx>>
conn == <<serial_port, handle, cpc, tests>>
local == <<call, sent, nwrites, nreads, value, timedout, outcome>>

----------------------------------------------------------------------------
(* execute(): acquire, write, readline, release, return. *)

\* A thread enters a method, which formats cmd and calls execute().
CallOp(t, c) ==
  /\ pc[t] = "idle"
  /\ pc' = [pc EXCEPT ![t] = "acquire"]
  /\ call' = [call EXCEPT ![t] = c]
  /\ sent' = [sent EXCEPT ![t] = <<>>]
  /\ nwrites' = [nwrites EXCEPT ![t] = 0]
  /\ nreads' = [nreads EXCEPT ![t] = 0]
  /\ value' = [value EXCEPT ![t] = <<>>]
  /\ timedout' = [timedout EXCEPT ![t] = FALSE]
  /\ outcome' = [outcome EXCEPT ![t] = Pending]

\* Acquire that does not wait for the lock to be free.
AcquireNoWait(t) ==
  /\ pc[t] = "acquire"
  /\ mutex' = t
  /\ pc' = [pc EXCEPT ![t] = "write"]
  /\ UNCHANGED <<config, dev, conn, bQueries, local, calls, lastEv>>

\* self.mutex.acquire(): blocks while the lock is held by anyone.
Acquire(t) ==
  /\ pc[t] = "acquire"
  /\ mutex = 0
  /\ mutex' = t
  /\ pc' = [pc EXCEPT ![t] = "write"]
  /\ UNCHANGED <<config, dev, conn, bQueries, local, calls, lastEv>>

\* self.serial_port.write(cmd + '\r') succeeds: the driver's side of it.
Transmit(t) ==
  /\ pc[t] = "write"
  /\ handle[serial_port] = "open"
  /\ sent' = [sent EXCEPT ![t] = call[t].cmd \o <<"\r">>]
  /\ nwrites' = [nwrites EXCEPT ![t] = @ + 1]
  /\ bQueries' = IF cpc # "connected" /\ call[t].cmd = <<"b">>
                 THEN bQueries + 1 ELSE bQueries
  /\ lastEv' = [kind |-> "write", thread |-> t]
  /\ pc' = [pc EXCEPT ![t] = "read"]
  /\ UNCHANGED <<config, conn, mutex, call, nreads, value, timedout, outcome, calls>>

\* The write, with a device whose replies are any line at any time.
Write(t) == Transmit(t) /\ UNCHANGED dev

\* self.serial_port.write raises (write timeout, port not open): the exception
\* leaves execute() at line 100, past the acquire and before the release.
WriteRaise(t) ==
  /\ pc[t] = "write"
  /\ outcome' = [outcome EXCEPT ![t] = ResultOf(call[t].op, Threw("SerialException"))]
  /\ pc' = [pc EXCEPT ![t] = "done"]
  /\ UNCHANGED <<config, dev, conn, mutex, bQueries, call, sent, nwrites, nreads,
                 value, timedout, calls, lastEv>>

\* self.serial_port.readline() returns a line; .strip('\n') is applied to it.
Receive(t, line) ==
  /\ pc[t] = "read"
  /\ handle[serial_port] = "open"
  /\ value' = [value EXCEPT ![t] = Strip(line, {"\n"})]
  /\ nreads' = [nreads EXCEPT ![t] = @ + 1]
  /\ lastEv' = [kind |-> "read", thread |-> t]
  /\ pc' = [pc EXCEPT ![t] = "release"]
  /\ UNCHANGED <<config, conn, mutex, bQueries, call, sent, nwrites, timedout,
                 outcome, calls>>

ReadLine(t, line) == Receive(t, line) /\ UNCHANGED dev

\* readline() returns '' because no byte arrived within self.timeout.
ReceiveNothing(t) ==
  /\ pc[t] = "read"
  /\ handle[serial_port] = "open"
  /\ value' = [value EXCEPT ![t] = Strip(<<>>, {"\n"})]
  /\ timedout' = [timedout EXCEPT ![t] = TRUE]
  /\ nreads' = [nreads EXCEPT ![t] = @ + 1]
  /\ lastEv' = [kind |-> "read", thread |-> t]
  /\ pc' = [pc EXCEPT ![t] = "release"]
  /\ UNCHANGED <<config, conn, mutex, bQueries, call, sent, nwrites, outcome, calls>>

ReadTimeout(t) == ReceiveNothing(t) /\ UNCHANGED dev

\* readline() raises (device gone): the exception leaves execute() at line 102.
ReadRaise(t) ==
  /\ pc[t] = "read"
  /\ outcome' = [outcome EXCEPT ![t] = ResultOf(call[t].op, Threw("SerialException"))]
  /\ pc' = [pc EXCEPT ![t] = "done"]
  /\ UNCHANGED <<config, dev, conn, mutex, bQueries, call, sent, nwrites, nreads,
                 value, timedout, calls, lastEv>>

\* Return that leaves the lock held.
ReturnKeepsLock(t) ==
  /\ pc[t] = "release"
  /\ outcome' = [outcome EXCEPT ![t] = ResultOf(call[t].op, Returned(value[t]))]
  /\ pc' = [pc EXCEPT ![t] = "done"]
  /\ UNCHANGED <<config, dev, conn, mutex, bQueries, call, sent, nwrites, nreads, value,
                 timedout, calls, lastEv>>

\* Return that writes the command again, up to max_attempts times, when the
\* read gave nothing.
ReturnRetry(t) ==
  /\ pc[t] = "release"
  /\ IF value[t] = <<>> /\ nwrites[t] < call[t].max_attempts
     THEN /\ pc' = [pc EXCEPT ![t] = "write"]
          /\ nreads' = [nreads EXCEPT ![t] = 0]
          /\ UNCHANGED <<mutex, outcome>>
     ELSE /\ mutex' = 0
          /\ outcome' = [outcome EXCEPT ![t] = ResultOf(call[t].op, Returned(value[t]))]
          /\ pc' = [pc EXCEPT ![t] = "done"]
          /\ UNCHANGED nreads
  /\ UNCHANGED <<config, dev, conn, bQueries, call, sent, nwrites, value,
                 timedout, calls, lastEv>>

\* Return that keeps the number of tokens of the last encoder reply in
\* self.encoder_count.
ReturnCaching(t) ==
  /\ pc[t] = "release"
  /\ mutex' = 0
  /\ fields' = IF call[t].op = "get_encoder_counts"
               THEN [fields EXCEPT !.encoder_count = Len(Split(value[t]))]
               ELSE fields
  /\ outcome' = [outcome EXCEPT ![t] = ResultOf(call[t].op, Returned(value[t]))]
  /\ pc' = [pc EXCEPT ![t] = "done"]
  /\ UNCHANGED <<port, baudrate, dev, conn, bQueries, call, sent, nwrites, nreads, value,
                 timedout, calls, lastEv>>

\* self.mutex.release(); return value -- and the calling method turns the
\* value into its own result.
Return(t) ==
  /\ pc[t] = "release"
  /\ mutex' = 0
  /\ outcome' = [outcome EXCEPT ![t] = ResultOf(call[t].op, Returned(value[t]))]
  /\ pc' = [pc EXCEPT ![t] = "done"]
  /\ UNCHANGED <<config, dev, conn, bQueries, call, sent, nwrites, nreads, value,
                 timedout, calls, lastEv>>

\* The caller has consumed the result; the thread can make another call.
Reset(t) ==
  /\ pc' = [pc EXCEPT ![t] = "idle"]
  /\ call' = [call EXCEPT ![t] = NoCall]
  /\ sent' = [sent EXCEPT ![t] = <<>>]
  /\ nwrites' = [nwrites EXCEPT ![t] = 0]
  /\ nreads' = [nreads EXCEPT ![t] = 0]
  /\ value' = [value EXCEPT ![t] = <<>>]
  /\ timedout' = [timedout EXCEPT ![t] = FALSE]
  /\ outcome' = [outcome EXCEPT ![t] = Pending]

Finish(t) ==
  /\ pc[t] = "done"
  /\ cpc = "connected"
  /\ Reset(t)
  /\ UNCHANGED <<config, dev, conn, mutex, bQueries, calls, lastEv>>

\* A thread of the application calls a method of the connected driver.
Call(t) ==
  /\ cpc = "connected"
  /\ calls < MaxCalls
  /\ \E c \in ThreadCalls : CallOp(t, c)
  /\ calls' = calls + 1
  /\ UNCHANGED <<config, dev, conn, mutex, bQueries, lastEv>>

----------------------------------------------------------------------------
(* connect() *)

\* `not self.port`
Falsy(p) == p = "None" \/ p = ""

\* Differs that takes "no value" for a match: `if test and test != baud`.
DiffersUnlessNone(test, baud) == test.kind = "int" /\ test.ints # <<baud>>

\* test != self.baudrate
Differs(test, baud) == ~(test.kind = "int" /\ test.ints = <<baud>>)

\* Line 52: serial.Serial(port=self.port).  With port None the object is made
\* without being opened; otherwise the port is opened, which may raise.
ConnectOpenDefault ==
  /\ cpc = "open_default"
  /\ \/ /\ port = "None"
        /\ handle' = [handle EXCEPT ![1] = "unopened"]
        /\ serial_port' = 1
        /\ cpc' = "wait_port"
     \/ /\ ~Falsy(port)
        /\ handle' = [handle EXCEPT ![1] = "open"]
        /\ serial_port' = 1
        /\ cpc' = "wait_port"
     \/ /\ port # "None"
        /\ cpc' = "fatal"
        /\ UNCHANGED <<handle, serial_port>>
  /\ UNCHANGED <<config, dev, mutex, tests, bQueries, pc, local, calls, lastEv>>

\* Lines 55-59: while not self.port: sleep; then serial.Serial(...) with the
\* real settings, rebinding self.serial_port.  The first object loses its last
\* reference: whether it is finalized (and so closed) is up to the runtime.
ConnectOpenReal ==
  /\ cpc = "wait_port"
  /\ IF Falsy(port)
     THEN UNCHANGED <<handle, serial_port, cpc>>
     ELSE \/ /\ \E first \in {"open", "closed"} :
                  handle' = [handle EXCEPT ![1] = first, ![2] = "open"]
             /\ serial_port' = 2
             /\ cpc' = "get_baud"
          \/ /\ cpc' = "fatal"
             /\ UNCHANGED <<handle, serial_port>>
  /\ UNCHANGED <<config, dev, mutex, tests, bQueries, pc, local, calls, lastEv>>

\* Line 62: test = self.get_baud() -- the call is made.
ConnectGetBaud ==
  /\ cpc = "get_baud"
  /\ CallOp(Main, MkCall("get_baud", <<>>))
  /\ cpc' = "test"
  /\ UNCHANGED <<config, dev, mutex, serial_port, handle, tests, bQueries, calls, lastEv>>

\* Lines 62-64: the call returned; if test != self.baudrate: sleep and retry.
ConnectTest ==
  /\ cpc = "test"
  /\ pc[Main] = "done"
  /\ tests' = Append(tests, outcome[Main])
  /\ cpc' = IF Differs(outcome[Main], baudrate) THEN "retry" ELSE "connected"
  /\ Reset(Main)
  /\ UNCHANGED <<config, dev, mutex, serial_port, handle, bQueries, calls, lastEv>>

\* Line 65: test = self.get_baud() -- the second call is made.
ConnectRetry ==
  /\ cpc = "retry"
  /\ CallOp(Main, MkCall("get_baud", <<>>))
  /\ cpc' = "retest"
  /\ UNCHANGED <<config, dev, mutex, serial_port, handle, tests, bQueries, calls, lastEv>>

\* Lines 65-77: the second call returned; if test != self.baudrate: raise
\* SerialException, which the handler turns into os._exit(1).
ConnectRetest ==
  /\ cpc = "retest"
  /\ pc[Main] = "done"
  /\ tests' = Append(tests, outcome[Main])
  /\ cpc' = IF Differs(outcome[Main], baudrate) THEN "fatal" ELSE "connected"
  /\ Reset(Main)
  /\ UNCHANGED <<config, dev, mutex, serial_port, handle, bQueries, calls, lastEv>>

connect ==
  \/ ConnectOpenDefault
  \/ ConnectOpenReal
  \/ ConnectGetBaud
  \/ ConnectTest
  \/ ConnectRetry
  \/ ConnectRetest

----------------------------------------------------------------------------
(* The driver from construction on: connect, then threads calling it. *)

Next ==
  \/ connect
  \/ \E t \in Threads :
       \/ Call(t)
       \/ Acquire(t)
       \/ Write(t)
       \/ WriteRaise(t)
       \/ \E line \in ThreadLines : ReadLine(t, line)
       \/ ReadTimeout(t)
       \/ ReadRaise(t)
       \/ Return(t)
       \/ Finish(t)

Spec == Init /\ [][Next]_vars

----------------------------------------------------------------------------
(* The connected driver used by one thread: every typed operation against  *)
(* every line of the model.                                                 *)

\* The state connect() leaves when the first get_baud matched.
Connected ==
  /\ port = "/dev/ttyUSB0"
  /\ baudrate = 57600
  /\ fields = InitFields
  /\ mutex = 0
  /\ serial_port = 2
  /\ handle = [h \in 1..2 |-> IF h = 1 THEN "closed" ELSE "open"]
  /\ cpc = "connected"
  /\ tests = <<PyInt(57600)>>
  /\ bQueries = 1
  /\ pc = [t \in Threads |-> "idle"]
  /\ call = [t \in Threads |-> NoCall]
  /\ sent = [t \in Threads |-> <<>>]
  /\ nwrites = [t \in Threads |-> 0]
  /\ nreads = [t \in Threads |-> 0]
  /\ value = [t \in Threads |-> <<>>]
  /\ timedout = [t \in Threads |-> FALSE]
  /\ outcome = [t \in Threads |-> Pending]
  /\ calls = 0
  /\ lastEv = [kind |-> "read", thread |-> Main]
  /\ unanswered = <<>>
  /\ rx = <<>>

TypedCall(t) ==
  /\ cpc = "connected"
  /\ calls < MaxCalls
  /\ \E c \in TypedCalls : CallOp(t, c)
  /\ calls' = calls + 1
  /\ UNCHANGED <<config, dev, conn, mutex, bQueries, lastEv>>

\* The application calls execute, execute_array or execute_ack itself.
PrimitiveCall(t) ==
  /\ cpc = "connected"
  /\ calls < MaxCalls
  /\ \E c \in PrimitiveCalls : CallOp(t, c)
  /\ calls' = calls + 1
  /\ UNCHANGED <<config, dev, conn, mutex, bQueries, lastEv>>

\* The attributes the object has after __init__ and connect.
Attributes == DOMAIN InitFields \cup {"port", "baudrate", "mutex", "serial_port"}

\* drive_m_per_s(right, left): its first statement reads self.wheel_diameter,
\* which is not an attribute of the object, so AttributeError is raised before
\* the tick values are computed and before self.drive is called.
DriveMPerS(t) ==
  /\ cpc = "connected"
  /\ calls < MaxCalls
  /\ pc[t] = "idle"
  /\ "wheel_diameter" \notin Attributes
  /\ \E a \in PairArgs :
       call' = [call EXCEPT ![t] = [op |-> "drive_m_per_s", args |-> a, cmd |-> <<>>,
                                    max_attempts |-> 5]]
  /\ outcome' = [outcome EXCEPT ![t] = Raised("AttributeError")]
  /\ pc' = [pc EXCEPT ![t] = "done"]
  /\ calls' = calls + 1
  /\ UNCHANGED <<config, dev, conn, mutex, bQueries, sent, nwrites, nreads, value,
                 timedout, lastEv>>

OpsNext ==
  \/ TypedCall(Main)
  \/ PrimitiveCall(Main)
  \/ DriveMPerS(Main)
  \/ \E t \in Threads :
       \/ Acquire(t)
       \/ Write(t)
       \/ WriteRaise(t)
       \/ \E line \in Lines : ReadLine(t, line)
       \/ ReadTimeout(t)
       \/ ReadRaise(t)
       \/ Return(t)
       \/ Finish(t)

OpsSpec == Connected /\ [][OpsNext]_vars

----------------------------------------------------------------------------
(* The concurrency scenario: every thread issues one ack-type command, the *)
(* transport accepts every write and answers OK.  The threads and the      *)
(* transport are scheduled fairly.                                          *)

AckCall(t) ==
  /\ cpc = "connected"
  /\ \E c \in AckCalls : CallOp(t, c)
  /\ calls' = calls + 1
  /\ UNCHANGED <<config, dev, conn, mutex, bQueries, lastEv>>

ThreadStep(t) ==
  \/ AckCall(t)
  \/ Acquire(t)
  \/ Write(t)
  \/ ReadLine(t, LineOK)
  \/ Return(t)

LiveNext == \E t \in Threads : ThreadStep(t)

LiveSpec ==
  /\ Connected
  /\ [][LiveNext]_vars
  /\ \A t \in Threads : WF_vars(ThreadStep(t))

----------------------------------------------------------------------------
(* A call that fails, then an unrelated call: Main makes any typed call,   *)
(* and once it has returned another thread calls digital_write(13, 1).     *)
(* The transport answers or times out.                                      *)

FollowUp == MkCall("digital_write", <<13, 1>>)
FollowLines == {LineOK, LineNoise}
Others == Threads \ {Main}

FollowCall(t) ==
  /\ cpc = "connected"
  /\ pc[Main] = "done"
  /\ calls < MaxCalls
  /\ CallOp(t, FollowUp)
  /\ calls' = calls + 1
  /\ UNCHANGED <<config, dev, conn, mutex, bQueries, lastEv>>

UseNext ==
  \/ TypedCall(Main)
  \/ \E line \in Lines : ReadLine(Main, line)
  \/ \E t \in Others :
       \/ FollowCall(t)
       \/ \E line \in FollowLines : ReadLine(t, line)
  \/ \E t \in Threads :
       \/ Acquire(t)
       \/ Write(t)
       \/ ReadTimeout(t)
       \/ Return(t)
       \/ Finish(t)

UseSpec == Connected /\ [][UseNext]_vars

----------------------------------------------------------------------------
(* The whole public surface of the connected driver: the methods that go   *)
(* through execute(), and send(), close() and open(), which do not.         *)

SendCmds == {<<"e">>}
PublicLines == {LineOK, LineNoise}

\* send(cmd): self.serial_port.write(cmd + '\r'), with no acquire around it.
Send(t, cmd) ==
  /\ cpc = "connected"
  /\ calls < MaxCalls
  /\ pc[t] = "idle"
  /\ handle[serial_port] = "open"
  /\ call' = [call EXCEPT ![t] = Primitive("send", cmd)]
  /\ sent' = [sent EXCEPT ![t] = cmd \o <<"\r">>]
  /\ nwrites' = [nwrites EXCEPT ![t] = 1]
  /\ nreads' = [nreads EXCEPT ![t] = 0]
  /\ value' = [value EXCEPT ![t] = <<>>]
  /\ timedout' = [timedout EXCEPT ![t] = FALSE]
  /\ outcome' = [outcome EXCEPT ![t] = PyNone]
  /\ pc' = [pc EXCEPT ![t] = "done"]
  /\ lastEv' = [kind |-> "write", thread |-> t]
  /\ calls' = calls + 1
  /\ UNCHANGED <<config, dev, conn, mutex, bQueries>>

\* send(cmd) on a transport that is not open: write raises.
SendRaise(t, cmd) ==
  /\ cpc = "connected"
  /\ calls < MaxCalls
  /\ pc[t] = "idle"
  /\ handle[serial_port] # "open"
  /\ call' = [call EXCEPT ![t] = Primitive("send", cmd)]
  /\ outcome' = [outcome EXCEPT ![t] = Raised("SerialException")]
  /\ pc' = [pc EXCEPT ![t] = "done"]
  /\ calls' = calls + 1
  /\ UNCHANGED <<config, dev, conn, mutex, bQueries, sent, nwrites, nreads, value,
                 timedout, lastEv>>

\* close(): self.serial_port.close(), with no acquire around it.
Close(t) ==
  /\ cpc = "connected"
  /\ pc[t] = "idle"
  /\ handle' = [handle EXCEPT ![serial_port] = "closed"]
  /\ lastEv' = IF handle[serial_port] = "open"
               THEN [kind |-> "close", thread |-> t] ELSE lastEv
  /\ UNCHANGED <<config, dev, serial_port, cpc, tests, mutex, bQueries, pc, local,
                 calls>>

\* open(): self.serial_port.open(); on a port that is already open pyserial
\* raises and nothing changes.
Open(t) ==
  /\ cpc = "connected"
  /\ pc[t] = "idle"
  /\ handle' = [handle EXCEPT ![serial_port] = "open"]
  /\ lastEv' = IF handle[serial_port] = "closed"
               THEN [kind |-> "open", thread |-> t] ELSE lastEv
  /\ UNCHANGED <<config, dev, serial_port, cpc, tests, mutex, bQueries, pc, local,
                 calls>>

PublicNext ==
  \E t \in Threads :
    \/ Call(t)
    \/ \E cmd \in SendCmds : Send(t, cmd) \/ SendRaise(t, cmd)
    \/ Close(t)
    \/ Open(t)
    \/ Acquire(t)
    \/ Write(t)
    \/ WriteRaise(t)
    \/ \E line \in PublicLines : ReadLine(t, line)
    \/ ReadTimeout(t)
    \/ ReadRaise(t)
    \/ Return(t)
    \/ Finish(t)

PublicSpec == Connected /\ [][PublicNext]_vars

----------------------------------------------------------------------------
(* The driver against a device that answers every command it receives with *)
(* exactly one line, in order, after any delay. unanswered holds the        *)
(* commands the device has received and not answered yet, rx the lines      *)
(* waiting in the transport's receive buffer.                               *)

\* The line this device sends for the bytes w of one command: the command
\* itself, so that a reply tells which command it answers.
DeviceLine(w) == SubSeq(w, 1, Len(w) - 1) \o NL

DevWrite(t) ==
  /\ Transmit(t)
  /\ unanswered' = Append(unanswered, sent'[t])
  /\ UNCHANGED rx

\* The device answers the oldest command it has not answered.
DevReply ==
  /\ unanswered # <<>>
  /\ rx' = Append(rx, DeviceLine(Head(unanswered)))
  /\ unanswered' = Tail(unanswered)
  /\ UNCHANGED <<config, conn, mutex, bQueries, pc, local, calls, lastEv>>

\* readline() returns the oldest line of the receive buffer.
DevReadLine(t) ==
  /\ rx # <<>>
  /\ Receive(t, Head(rx))
  /\ rx' = Tail(rx)
  /\ UNCHANGED unanswered

\* readline() times out on an empty receive buffer.
DevReadTimeout(t) ==
  /\ rx = <<>>
  /\ ReceiveNothing(t)
  /\ UNCHANGED dev

DevNext ==
  \/ DevReply
  \/ \E t \in Threads :
       \/ Call(t)
       \/ Acquire(t)
       \/ DevWrite(t)
       \/ DevReadLine(t)
       \/ DevReadTimeout(t)
       \/ Return(t)
       \/ Finish(t)

DevSpec == Connected /\ [][DevNext]_vars

----------------------------------------------------------------------------
(* Properties. *)

InFlight == {t \in Threads : pc[t] = "read"}
Wrote(t) == nwrites'[t] = nwrites[t] + 1
Read(t) == nreads'[t] = nreads[t] + 1

\* C1: at most one thread is between its transport write and its readline,
\* a write only ever follows a read (or nothing), and a read is made by the
\* thread that made the write just before it.
C1_ExchangesSerialized ==
  /\ [](Cardinality(InFlight) <= 1)
  /\ [][\A t \in Threads :
          /\ Wrote(t) => lastEv.kind # "write"
          /\ Read(t) => lastEv = [kind |-> "write", thread |-> t]]_vars

\* A thread is between write and readline while another waits for the lock.
C1_Witness ==
  \E t, u \in Threads : t # u /\ pc[t] = "read" /\ pc[u] = "acquire" /\ cpc = "connected"

\* C2: with every write accepted and every readline answered OK, each caller
\* that has entered its ack-type call eventually returns from it.
C2_CallersReturn ==
  \A t \in Threads : (pc[t] = "acquire") ~> (pc[t] = "done" /\ outcome[t] = PyBool(TRUE))

\* Every thread has returned True, so each waited for the others or was waited for.
C2_Witness ==
  \A t \in Threads : pc[t] = "done" /\ outcome[t] = PyBool(TRUE)

\* C3: once a call has left execute(), by return or by exception, its thread
\* does not hold the execution lock.
C3_LockFreeAfterExit ==
  \A t \in Threads : pc[t] \in {"idle", "done"} => mutex # t

Matches(test) == test.kind = "int" /\ test.ints = <<baudrate>>

\* C4: connect puts at most two 'b' queries on the transport; it is connected
\* after one query iff the first reply is the baudrate, after a second query iff
\* the first is not and the second is; two mismatches end in the fatal outcome;
\* connected implies the last query returned the baudrate.
C4_ConnectVerifiesBaud ==
  /\ bQueries <= 2
  /\ Len(tests) <= 2
  /\ cpc = "connected" =>
       /\ tests # <<>>
       /\ Matches(tests[Len(tests)])
       /\ bQueries = Len(tests)
  /\ tests # <<>> =>
       IF Matches(tests[1])
       THEN cpc = "connected" /\ Len(tests) = 1 /\ bQueries = 1
       ELSE cpc \in {"retry", "retest", "connected", "fatal"}
  /\ Len(tests) = 2 =>
       /\ bQueries = 2 \/ mutex = Main  \* a write that raised put nothing on the wire
       /\ cpc = IF Matches(tests[2]) THEN "connected" ELSE "fatal"
  /\ (cpc = "fatal" /\ tests # <<>>) =>
       Len(tests) = 2 /\ ~Matches(tests[1]) /\ ~Matches(tests[2])

\* The first query was answered with another rate, the second with the baudrate.
C4_Witness ==
  /\ cpc = "connected"
  /\ Len(tests) = 2
  /\ tests[1] = PyInt(9600)
  /\ bQueries = 2

\* C5: in the fatal-connection outcome no handle connect created is open.
C5_NoOpenHandleAfterFatal ==
  cpc = "fatal" => \A h \in 1..2 : handle[h] # "open"

AckTypeOps ==
  {"update_pid", "reset_encoders", "drive", "stop", "analog_pin_mode", "analog_write",
   "digital_pin_mode", "digital_write", "config_servo", "servo_write",
   "set_servo_delay", "attach_servo", "detach_servo"}

\* The call of thread t has returned after a completed exchange.
Exchanged(t) == pc[t] = "done" /\ nreads[t] = 1

\* C6: an ack-type operation writes one line, its command and '\r', and
\* returns True when the reply is OK and False when it is anything else.
C6_AckOpsReturnBool ==
  \A t \in Threads :
    (Exchanged(t) /\ call[t].op \in AckTypeOps) =>
      /\ nwrites[t] = 1
      /\ sent[t] = call[t].cmd \o <<"\r">>
      /\ outcome[t] = PyBool(value[t] = OK)

IntToken(tok) == ParseInt(tok).ok

\* C7: get_encoder_counts returns two integers iff the reply is two integer
\* tokens, raises SerialException for any other token count, and fails in no
\* other way.
C7_EncoderPairOrProtocolError ==
  \A t \in Threads :
    (Exchanged(t) /\ call[t].op = "get_encoder_counts") =>
      LET toks == Split(value[t])
      IN /\ outcome[t].kind = "list_int" <=>
              (Len(toks) = 2 /\ \A i \in 1..Len(toks) : IntToken(toks[i]))
         /\ outcome[t].kind = "list_int" => Len(outcome[t].ints) = 2
         /\ Len(toks) # 2 => outcome[t] = Raised("SerialException")
         /\ outcome[t].kind # "list_int" => outcome[t] = Raised("SerialException")

\* C8: get_imu_data returns 12 floats iff the reply has 12 tokens, and None
\* for every other token count.
C8_ImuTwelveIffTwelveTokens ==
  \A t \in Threads :
    (Exchanged(t) /\ call[t].op = "get_imu_data") =>
      IF Len(Split(value[t])) = 12
      THEN outcome[t].kind = "list_float" /\ Len(outcome[t].floats) = 12
      ELSE outcome[t] = PyNone

ScalarReads == {"analog_read", "digital_read", "get_baud"}

\* The integer replies among the lines of the model, as execute() returns them.
IntegerReplies ==
  {<<<<"5", "7", "6", "0", "0", "\r">>, 57600>>, <<<<"9", "6", "0", "0">>, 9600>>}

\* C9: analog_read, digital_read and get_baud never raise; they return the
\* integer of an integer reply and None for every other reply, the empty reply
\* of a timeout included.
C9_ScalarReadsNeverRaise ==
  \A t \in Threads :
    (pc[t] = "done" /\ call[t].op \in ScalarReads) =>
      /\ outcome[t].kind \in {"int", "None"}
      /\ Exchanged(t) =>
           IF \E r \in IntegerReplies : r[1] = value[t]
           THEN \E r \in IntegerReplies : r[1] = value[t] /\ outcome[t] = PyInt(r[2])
           ELSE outcome[t] = PyNone

\* analog_read got noise, or nothing at all, and returned None.
C9_Witness ==
  \E t \in Threads :
    /\ Exchanged(t)
    /\ call[t].op = "analog_read"
    /\ value[t] \in {<<"x">>, <<>>}
    /\ outcome[t] = PyNone

\* The lines that reach the operation but have the wrong shape for it.
Malformed(op) ==
  CASE op = "get_encoder_counts" -> {LineNoise, LineTriple, LinePairBad}
    [] op = "get_imu_data" -> {LineImu11, LineImu13, LineImu12Bad}
    [] op \in {"analog_read", "digital_read"} -> {LineNoise, LineFloat}

\* C10: the result of a timed-out exchange differs from the result the same
\* operation gives for a reply that arrived with the wrong shape.
C10_TimeoutDistinct ==
  \A t \in Threads :
    (Exchanged(t) /\ timedout[t]
       /\ call[t].op \in {"get_encoder_counts", "get_imu_data", "analog_read", "digital_read"}) =>
      \A line \in Malformed(call[t].op) :
        outcome[t] # ResultOf(call[t].op, Returned(Strip(line, {"\n"})))

\* The call of thread t ended in one of the per-call errors: a read timeout,
\* a wrong arity, an unparseable scalar, an acknowledgement other than OK.
PerCallError(t) ==
  /\ Exchanged(t)
  /\ \/ timedout[t]
     \/ call[t].op = "get_encoder_counts" /\ Len(Split(value[t])) # 2
     \/ call[t].op = "get_imu_data" /\ Len(Split(value[t])) # 12
     \/ call[t].op \in ScalarReads \cup {"servo_read"} /\ ~IntToken(value[t])
     \/ call[t].op \in AckTypeOps /\ value[t] # OK

\* C11: after a per-call error the lock is not held by the failed call nor by
\* anyone outside execute(), and a following digital_write(13, 1) writes its
\* own line, reads once and returns True when the reply is OK.
C11_UsableAfterError ==
  \A t \in Threads :
    PerCallError(t) =>
      /\ mutex # t
      /\ mutex # 0 => pc[mutex] \in {"write", "read", "release"}
      /\ \A u \in Threads \ {t} :
           (Exchanged(u) /\ call[u].op = "digital_write" /\ call[u].args = <<13, 1>>
              /\ lastEv = [kind |-> "read", thread |-> u]) =>
             /\ nwrites[u] = 1
             /\ sent[u] = <<"w", " ", "1", "3", " ", "1", "\r">>
             /\ value[u] = OK => outcome[u] = PyBool(TRUE)
             /\ value[u] # OK => outcome[u] = PyBool(FALSE)

\* get_encoder_counts raised on a wrong arity and the digital_write after it
\* returned True.
C11_Witness ==
  \E u \in Threads \ {Main} :
    /\ PerCallError(Main)
    /\ outcome[Main] = Raised("SerialException")
    /\ ~timedout[Main]
    /\ Exchanged(u)
    /\ lastEv = [kind |-> "read", thread |-> u]
    /\ outcome[u] = PyBool(TRUE)

\* C12: whoever made the last write to the transport held the lock for it,
\* and holds it until the read that follows.
C12_WritesHoldLock == lastEv.kind = "write" => mutex = lastEv.thread

C14_RepliesPaired ==
  \A t \in Threads :
    (nreads[t] = 1 /\ value[t] # <<>>) =>
      value[t] = Strip(DeviceLine(sent[t]), {"\n"})

\* C15: a drive_m_per_s call that has ended made exactly one exchange, of an
\* 'm <right> <left>' line, and a stop call that has exchanged wrote 'm 0 0'.
C15_DriveMPerSOneExchange ==
  \A t \in Threads :
    /\ (pc[t] = "done" /\ call[t].op = "drive_m_per_s") =>
         /\ nwrites[t] = 1
         /\ nreads[t] = 1
         /\ SubSeq(sent[t], 1, 2) = <<"m", " ">>
    /\ (Exchanged(t) /\ call[t].op = "stop") =>
         nwrites[t] = 1 /\ sent[t] = <<"m", " ", "0", " ", "0", "\r">>

ReadOps ==
  {"get_baud", "get_encoder_counts", "get_imu_data", "analog_read", "digital_read",
   "servo_read", "ping"}

\* C16: the attributes set by the constructor keep their values through every
\* call, and a read operation that has returned made one write and one read
\* of its own and its result is the function of that read's value alone.
C16_NoCachedState ==
  /\ port = "/dev/ttyUSB0"
  /\ baudrate = 57600
  /\ fields = InitFields
  /\ \A t \in Threads :
       (Exchanged(t) /\ call[t].op \in ReadOps) =>
         /\ nwrites[t] = 1
         /\ sent[t] = CmdOf(call[t].op, call[t].args) \o <<"\r">>
         /\ outcome[t] = ResultOf(call[t].op, Returned(value[t]))

\* The second call of the run is a get_encoder_counts that read '1 -2' and
\* returned [1, -2], with encoder_count still 0.
C16_Witness ==
  /\ calls = 2
  /\ Exchanged(Main)
  /\ call[Main].op = "get_encoder_counts"
  /\ value[Main] = <<"1", " ", "-", "2", "\r">>
  /\ outcome[Main] = PyIntList(<<1, -2>>)
  /\ fields.encoder_count = 0

\* C17: a call that has read wrote its command and one '\r', the value it
\* read ends in neither '\n' nor '\r', and execute_ack returns True for a
\* reply of OK and its line terminator.
C17_TerminatorRemoved ==
  \A t \in Threads :
    nreads[t] = 1 =>
      /\ sent[t] = call[t].cmd \o <<"\r">>
      /\ value[t] # <<>> => value[t][Len(value[t])] \notin {"\n", "\r"}
      /\ (Exchanged(t) /\ call[t].op = "execute_ack"
            /\ Strip(value[t], {"\r", "\n"}) = OK) =>
           outcome[t] = PyBool(TRUE)

\* C18: the transport is open whenever a thread is between its write and its
\* readline, and once closed it stays closed until open() is called.
C18_CloseNotMidExchange ==
  /\ \A t \in Threads : pc[t] = "read" => handle[serial_port] = "open"
  /\ handle[serial_port] = "closed" <=> lastEv.kind = "close"

\* A step of the thread that runs connect(): a statement of connect itself or
\* of the get_baud call it is waiting for.
ConnectStep ==
  \/ connect
  \/ Acquire(Main)
  \/ Write(Main)
  \/ WriteRaise(Main)
  \/ \E line \in ThreadLines : ReadLine(Main, line)
  \/ ReadTimeout(Main)
  \/ ReadRaise(Main)
  \/ Return(Main)

\* C19: as long as connect has reached neither of its outcomes it can take a
\* step that changes the state: it is never blocked and never repeats a
\* statement whose condition nothing changes.
C19_ConnectTerminates ==
  cpc \notin {"connected", "fatal"} => ENABLED <<ConnectStep>>_vars

====
